---- MODULE Spec2Model ----
(***************************************************************************)
(* A model of s3sync (main.go): two Locations (a filesystem directory or   *)
(* an object-store bucket), their Manifests, the one-time reconcile pass   *)
(* (oneTimeSync) and the watch loop (location.Watch / handleEvent).        *)
(*                                                                         *)
(* Strings are sequences of tokens.  "/" is the path separator; a name     *)
(* such as "a" or "src", and the scheme "s3:", are single tokens.         *)
(***************************************************************************)
EXTENDS Integers, Sequences, FiniteSets, TLC

(***************************************************************************)
(* Bounds of the model.                                                    *)
(***************************************************************************)
\* file contents are 0..MaxContent; 0 is the empty content
MaxContent == 2
\* modification times are 1..MaxTime; 0 is Go's zero time.Time
MaxTime == 2
\* number of filesystem changes the environment makes while the watch runs
MaxEvents == 2
\* number of times oneTimeSync is run on the same pair of Locations
MaxRuns == 2
\* length of the keys of the round trip
MaxKeyLen == 4

\* the number of objects in one page of a listing
MaxPage == 1

SEP == "/"
None == "none"

(***************************************************************************)
(* String helpers: strings.TrimPrefix, filepath.Clean, filepath.Base,      *)
(* filepath.Dir, on token sequences.                                       *)
(***************************************************************************)
HasPrefix(s, p) ==
  /\ Len(p) <= Len(s)
  /\ SubSeq(s, 1, Len(p)) = p

TrimPrefix(s, p) ==
  IF HasPrefix(s, p) THEN SubSeq(s, Len(p) + 1, Len(s)) ELSE s

\* the elements of a path: its non-separator tokens, in order
Elements(s) == SelectSeq(s, LAMBDA t : t # SEP)

RECURSIVE JoinElems(_)
JoinElems(es) ==
  IF es = <<>> THEN <<>>
  ELSE IF Len(es) = 1 THEN <<es[1]>>
  ELSE <<es[1], SEP>> \o JoinElems(Tail(es))

\* filepath.Clean: one separator between elements, "." elements dropped, no
\* trailing separator, "." for the empty path.  (No ".." element is modelled.)
Clean(s) ==
  LET es == SelectSeq(Elements(s), LAMBDA e : e # ".")
      rooted == s # <<>> /\ Head(s) = SEP
  IN  IF rooted THEN <<SEP>> \o JoinElems(es)
      ELSE IF es = <<>> THEN <<".">>
      ELSE JoinElems(es)

\* filepath.Base: the last element; "." for the empty path, "/" for all-separators
Base(s) ==
  LET es == Elements(s)
  IN  IF s = <<>> THEN <<".">>
      ELSE IF es = <<>> THEN <<SEP>>
      ELSE <<es[Len(es)]>>

\* index of the last separator of s, 0 if none
RECURSIVE LastSep(_)
LastSep(s) ==
  IF s = <<>> THEN 0
  ELSE IF s[Len(s)] = SEP THEN Len(s)
  ELSE LastSep(SubSeq(s, 1, Len(s) - 1))

\* filepath.Dir: everything up to the last separator, cleaned
Dir(s) == Clean(SubSeq(s, 1, LastSep(s)))

(***************************************************************************)
(* Values.                                                                 *)
(***************************************************************************)
Names == {"a", "b"}            \* file names under a root
SubDir == "d"                  \* a directory name under the source root
Times == 1 .. MaxTime
ZeroTime == 0                  \* the zero time.Time of an unset LastModified

\* os.FileInfo.Size() / s3.Object.Size of a content: the empty content 0 has
\* length 0, content 1 length 1, contents 2k and 2k+1 the same length k+1
SizeOf(c) == IF c = 0 THEN 0 ELSE c \div 2 + 1

\* map helpers
EmptyMap == [k \in {} |-> None]
MapPut(m, k, v) == [x \in DOMAIN m \cup {k} |-> IF x = k THEN v ELSE m[x]]
MapDel(m, k) == [x \in DOMAIN m \ {k} |-> m[x]]
MapOf(pairs) == [k \in {p[1] : p \in pairs} |-> (CHOOSE p \in pairs : p[1] = k)[2]]

\* the arguments of the sync command
SrcParams == { <<SEP, "src">>, <<SEP, "src", SEP>>, <<"s3:", SEP, SEP, "sb", SEP>> }
DstParams == { <<SEP, "dst">>, <<"s3:", SEP, SEP, "db", SEP>> }

\* url.Parse(param).Scheme and .Host
Scheme(param) == IF param # <<>> /\ Head(param) = "s3:" THEN "s3" ELSE ""
Host(param) == IF Len(param) >= 4 THEN param[4] ELSE ""

Source == 0
Destination == 1

\* getLocations: the location built for one argument
GetLocation(param, type) ==
  [ Service  |-> IF Scheme(param) = "" THEN "FileInfo" ELSE "S3",
    Bucket   |-> IF Scheme(param) = "" THEN "" ELSE Host(param),
    Path     |-> param,
    Manifest |-> EmptyMap,
    Type     |-> type ]

\* the flags the sync command declares
FlagNames == {"noop", "recursive", "delete", "one-time"}

VARIABLES
  flags,        \* the flags given on the command line: name -> BOOLEAN
  recurse,      \* the package variable recurse
  source,       \* the source location
  destination,  \* the destination location
  disk,         \* local filesystem: resolved path -> [content, mtime]
  dirs,         \* local filesystem: the resolved paths that are directories
  objects,      \* object store: <<bucket, object name>> -> [content, mtime]
  pc,           \* where the process is
  run,          \* which run of oneTimeSync this is
  putTodo,      \* keys of source.Manifest the first range has not reached
  delTodo,      \* keys of destination.Manifest the second range has not reached
  io,           \* the destination call in progress, or None
  watches,      \* the paths registered with the watcher
  events,       \* watcher.Events: the events delivered and not yet received
  nchanges,     \* number of filesystem changes made while watching
  lastEvent,    \* per file name under the source root: the last event delivered
  entry,        \* the two Manifests as they were when oneTimeSync was entered
  hist          \* what the process has done, in order

vars == << flags, recurse, source, destination, disk, dirs, objects, pc, run,
           putTodo, delTodo, io, watches, events, nchanges, lastEvent, entry,
           hist >>

\* c.Bool(name): the value of a declared flag, false for any other name
CBool(name) == IF name \in FlagNames THEN flags[name] ELSE FALSE

\* the resolved form of a path: its elements, "." dropped
Resolve(path) == SelectSeq(Elements(path), LAMBDA e : e # ".")

IsDir(path) == Resolve(path) \in dirs
IsFile(path) == Resolve(path) \in DOMAIN disk

\* one entry of hist; the fields a kind does not use are None / 0
Hist(kind, op, key, ev) == [kind |-> kind, op |-> op, key |-> key, ev |-> ev, run |-> run]

(***************************************************************************)
(* Building a Manifest.                                                    *)
(***************************************************************************)
\* the zero value of a file
ZeroFile == [Name |-> <<>>, Path |-> <<>>, LastModified |-> ZeroTime, Size |-> 0,
             Object |-> None]

\* constructFile on an fsnotify event: Size and LastModified are left unset.
\* os.Stat has succeeded (the caller has already found the file).
ConstructFileEvent(e) ==
  [ZeroFile EXCEPT !.Name = Base(e.Name), !.Path = Dir(e.Name), !.Object = "FileInfo"]

\* constructFile on an object of a listing
ConstructFileObject(objKey, o) ==
  [ Name |-> Base(objKey), Path |-> Dir(objKey), LastModified |-> o.mtime,
    Size |-> SizeOf(o.content), Object |-> "s3Object" ]

\* ioutil.ReadDir(dir): the names of its entries
ReadDir(dir) ==
  { p[Len(p)] : p \in { q \in DOMAIN disk \cup dirs :
                          Len(q) = Len(Resolve(dir)) + 1
                          /\ SubSeq(q, 1, Len(q) - 1) = Resolve(dir) } }

\* buildDirManifest(dir): the <<key, file>> pairs it stores, for the tree under dir
RECURSIVE BuildDirManifest(_, _)
BuildDirManifest(l, dir) ==
  UNION { IF IsDir(dir \o <<SEP, n>>)
          THEN BuildDirManifest(l, dir \o <<SEP, n>>)
          ELSE { << Clean(TrimPrefix(dir \o <<SEP, n>>, l.Path)),
                    [ Name |-> <<n>>,
                      Size |-> SizeOf(disk[Resolve(dir \o <<SEP, n>>)].content),
                      Object |-> "FileInfo",
                      Path |-> dir,
                      LastModified |-> disk[Resolve(dir \o <<SEP, n>>)].mtime ] >> }
        : n \in ReadDir(dir) }

\* the object names ListObjectsV2Pages yields for Bucket and Prefix, all pages
Listing(bucket, prefix) ==
  { o[2] : o \in { x \in DOMAIN objects : x[1] = bucket /\ HasPrefix(x[2], prefix) } }

\* the key buildManifest stores an object of the listing under
ObjectKey(l, objKey) == <<SEP>> \o TrimPrefix(objKey, l.Path)

\* the pages ListObjectsV2Pages cuts a listing into, of MaxPage objects each
RECURSIVE Pages(_)
Pages(S) ==
  IF Cardinality(S) <= MaxPage THEN <<S>>
  ELSE LET page == CHOOSE P \in SUBSET S : Cardinality(P) = MaxPage
       IN  <<page>> \o Pages(S \ page)

\* what the callback of buildManifest stores for one page
PageEntries(l, page) ==
  { << ObjectKey(l, k), ConstructFileObject(k, objects[<<l.Bucket, k>>]) >> : k \in page }

\* a callback that stops the listing after the page it is given
FetchNextNever(lastPage) == FALSE

\* what the callback returns: whether the next page is to be fetched
FetchNext(lastPage) == TRUE

\* ListObjectsV2Pages: the callback is called page after page while it
\* returns true; acc is what it has stored so far
RECURSIVE ListPages(_, _, _)
ListPages(l, pages, acc) ==
  IF pages = <<>> THEN acc
  ELSE LET stored == acc \cup PageEntries(l, Head(pages))
       IN  IF FetchNext(Len(pages) = 1)
           THEN ListPages(l, Tail(pages), stored)
           ELSE stored

\* buildManifest: the Manifest it leaves in l, starting from an empty map
BuildManifest(l) ==
  IF l.Service = "S3"
  THEN MapOf(ListPages(l, Pages(Listing(l.Bucket, l.Path)), {}))
  ELSE MapOf(BuildDirManifest(l, l.Path))

(***************************************************************************)
(* The initial states: the arguments are parsed (getLocations), the        *)
(* backends hold some files.                                               *)
(***************************************************************************)
\* the files a backend may hold at startup: name -> [content, mtime]
FileSets(names, cs, ts) ==
  UNION { [S -> [content : cs, mtime : ts]] : S \in SUBSET names }

\* the local files of a location holding fs
DiskOf(l, fs) ==
  IF l.Service = "FileInfo"
  THEN { << Resolve(l.Path) \o <<n>>, fs[n] >> : n \in DOMAIN fs }
  ELSE {}

\* the objects of a location holding fs: named so that its listing finds them
ObjectsOf(l, fs) ==
  IF l.Service = "S3"
  THEN { << <<l.Bucket, l.Path \o <<n>> >>, fs[n] >> : n \in DOMAIN fs }
  ELSE {}

NoEvent == [Op |-> None, content |-> 0]

InitWith(params, srcFiles, dstFiles, flagSets) ==
  \E sp \in params, dp \in DstParams, sf \in srcFiles, df \in dstFiles, fl \in flagSets :
    LET s == GetLocation(sp, Source)
        d == GetLocation(dp, Destination)
    IN  /\ flags = fl
        /\ recurse = FALSE
        /\ source = s
        /\ destination = d
        /\ disk = MapOf(DiskOf(s, sf) \cup DiskOf(d, df))
        /\ dirs = { Resolve(l.Path) : l \in { x \in {s, d} : x.Service = "FileInfo" } }
        /\ objects = MapOf(ObjectsOf(s, sf) \cup ObjectsOf(d, df))
        /\ pc = "before"
        /\ run = 0
        /\ putTodo = {}
        /\ delTodo = {}
        /\ io = None
        /\ watches = {}
        /\ events = <<>>
        /\ nchanges = 0
        /\ lastEvent = [n \in Names |-> NoEvent]
        /\ entry = [src |-> EmptyMap, dst |-> EmptyMap]
        /\ hist = <<>>

(***************************************************************************)
(* Startup.                                                                *)
(***************************************************************************)
\* the Before hook of the sync command
Before ==
  /\ pc = "before"
  /\ recurse' = (IF CBool("recurse") THEN TRUE ELSE recurse)
  /\ pc' = "sync"
  /\ UNCHANGED << flags, source, destination, disk, dirs, objects, run, putTodo,
                  delTodo, io, watches, events, nchanges, lastEvent, entry, hist >>

\* sync, up to the call of oneTimeSync: both Manifests are built, and the
\* range over source.Manifest begins
SyncBuild ==
  /\ pc = "sync"
  /\ source' = [source EXCEPT !.Manifest = BuildManifest(source)]
  /\ destination' = [destination EXCEPT !.Manifest = BuildManifest(destination)]
  /\ run' = 1
  /\ entry' = [src |-> source'.Manifest, dst |-> destination'.Manifest]
  /\ putTodo' = DOMAIN source'.Manifest
  /\ pc' = "putLoop"
  /\ hist' = Append(hist, [Hist("syncStart", None, <<>>, 0) EXCEPT !.run = 1])
  /\ UNCHANGED << flags, recurse, disk, dirs, objects, delTodo, io, watches,
                  events, nchanges, lastEvent >>

(***************************************************************************)
(* Put and Delete on the destination: the call, and its return.            *)
(***************************************************************************)
\* file.Open: the file the reader would read
OpenPath(f) == f.Path \o <<SEP>> \o f.Name

\* the location after a Put of f under key has succeeded: only the object-store
\* branch of Put stores the Manifest entry
RecordPut(l, key, f) ==
  IF l.Service = "S3"
  THEN [l EXCEPT !.Manifest = MapPut(l.Manifest, key, f)]
  ELSE l

\* l.Put(key, f) is called for event ev (0: by oneTimeSync), h being what the
\* process has done so far; ret is where the caller goes on when it returns.  f.Open() comes first: log.Fatal if the
\* file cannot be opened, a nil reader when f holds no os.FileInfo.
PutCall(h, key, f, ev, ret) ==
  /\ hist' = Append(h, Hist("call", "put", key, ev))
  /\ IF f.Object = "FileInfo" /\ ~IsFile(OpenPath(f))
     THEN /\ pc' = "fatal"
          /\ io' = None
     ELSE /\ pc' = "io"
          /\ io' = [ op |-> "put", key |-> key, f |-> f, ev |-> ev, ret |-> ret,
                     body |-> IF f.Object = "FileInfo"
                              THEN disk[Resolve(OpenPath(f))].content
                              ELSE -1 ]

\* l.Delete(key) is called
DeleteCall(h, key, ev, ret) ==
  /\ hist' = Append(h, Hist("call", "delete", key, ev))
  /\ pc' = "io"
  /\ io' = [ op |-> "delete", key |-> key, f |-> ZeroFile, ev |-> ev, ret |-> ret,
             body |-> -1 ]

\* the path of key under a filesystem location
NativePath(l, key) == l.Path \o <<SEP>> \o key

\* the name of the object Put and Delete address for key
ObjectName(l, key) == key

\* the object store after PutObject of a body (a nil Body is an empty one)
StoreObject(l, key, body) ==
  MapPut(objects, <<l.Bucket, ObjectName(l, key)>>,
         [content |-> IF body = -1 THEN 0 ELSE body, mtime |-> MaxTime])

\* the filesystem after os.Create and io.Copy of a body
StoreFile(l, key, body) ==
  MapPut(disk, Resolve(NativePath(l, key)), [content |-> body, mtime |-> MaxTime])

\* can os.Create make this file: its directory exists and it is no directory
CanCreate(path) ==
  LET r == Resolve(path)
  IN  /\ r # <<>>
      /\ SubSeq(r, 1, Len(r) - 1) \in dirs
      /\ r \notin dirs

\* what the caller does once the destination call has returned
AfterReturn ==
  /\ pc' = io.ret
  /\ IF io.op = "delete" /\ io.ev # 0
     THEN source' = [source EXCEPT !.Manifest = MapDel(source.Manifest, io.key)]
     ELSE UNCHANGED source
  /\ hist' = hist \o << Hist("ret", io.op, io.key, io.ev) >>
               \o (IF io.ev # 0 THEN << Hist("done", None, <<>>, io.ev) >> ELSE <<>>)
  /\ io' = None

\* the destination call in progress returns without error
IOReturn ==
  /\ pc = "io"
  /\ LET l == destination
         path == NativePath(l, io.key)
     IN
     \/ /\ io.op = "put" /\ l.Service = "S3"
        /\ objects' = StoreObject(l, io.key, io.body)
        /\ destination' = RecordPut(l, io.key, io.f)
        /\ UNCHANGED disk
        /\ AfterReturn
     \/ /\ io.op = "put" /\ l.Service = "FileInfo"
        /\ CanCreate(path)
        /\ io.body # -1
        /\ disk' = StoreFile(l, io.key, io.body)
        /\ destination' = RecordPut(l, io.key, io.f)
        /\ UNCHANGED objects
        /\ AfterReturn
     \/ /\ io.op = "delete" /\ l.Service = "S3"
        /\ objects' = MapDel(objects, <<l.Bucket, ObjectName(l, io.key)>>)
        /\ destination' = [l EXCEPT !.Manifest = MapDel(l.Manifest, io.key)]
        /\ UNCHANGED disk
        /\ AfterReturn
     \/ /\ io.op = "delete" /\ l.Service = "FileInfo"
        /\ IsFile(path)
        /\ disk' = MapDel(disk, Resolve(path))
        /\ destination' = [l EXCEPT !.Manifest = MapDel(l.Manifest, io.key)]
        /\ UNCHANGED objects
        /\ AfterReturn
  /\ UNCHANGED << flags, recurse, dirs, run, putTodo, delTodo, watches, events,
                  nchanges, lastEvent, entry >>

\* a failed destination call after which the caller goes on
IOFailContinues ==
  /\ pc = "io"
  /\ pc' = io.ret
  /\ io' = None
  /\ UNCHANGED << flags, recurse, source, destination, disk, dirs, objects, run,
                  putTodo, delTodo, watches, events, nchanges, lastEvent, entry, hist >>

\* the destination call in progress ends the process: log.Fatal on an error of
\* the backend, or the panic of io.Copy on a nil reader
IOFail ==
  /\ pc = "io"
  /\ LET l == destination
         path == NativePath(l, io.key)
     IN
     \/ \* PutObject or DeleteObject returns an error
        /\ l.Service = "S3"
        /\ pc' = "fatal"
        /\ UNCHANGED disk
     \/ \* os.Create returns an error
        /\ io.op = "put" /\ l.Service = "FileInfo"
        /\ pc' = "fatal"
        /\ UNCHANGED disk
     \/ \* the file is created, then io.Copy returns an error or panics
        /\ io.op = "put" /\ l.Service = "FileInfo"
        /\ CanCreate(path)
        /\ pc' = IF io.body = -1 THEN "panic" ELSE "fatal"
        /\ disk' = StoreFile(l, io.key, 0)
     \/ \* os.Remove returns an error
        /\ io.op = "delete" /\ l.Service = "FileInfo"
        /\ pc' = "fatal"
        /\ UNCHANGED disk
  /\ io' = None
  /\ UNCHANGED << flags, recurse, source, destination, dirs, objects, run, putTodo,
                  delTodo, watches, events, nchanges, lastEvent, entry, hist >>

(***************************************************************************)
(* oneTimeSync.                                                            *)
(***************************************************************************)
\* a oneTimeSync that also pushes when the modification times differ
NeedsPutOrNewer(key, f) ==
  \/ key \notin DOMAIN destination.Manifest
  \/ f.Size # destination.Manifest[key].Size
  \/ f.LastModified # destination.Manifest[key].LastModified

\* does oneTimeSync push f, given the destination's Manifest
NeedsPut(key, f) ==
  \/ key \notin DOMAIN destination.Manifest
  \/ f.Size # destination.Manifest[key].Size

\* one iteration of the range over source.Manifest
SyncPutStep ==
  /\ pc = "putLoop"
  /\ \E key \in putTodo :
       /\ putTodo' = putTodo \ {key}
       /\ IF NeedsPut(key, source.Manifest[key])
          THEN PutCall(hist, key, source.Manifest[key], 0, "putLoop")
          ELSE UNCHANGED << pc, io, hist >>
  /\ UNCHANGED << flags, recurse, source, destination, disk, dirs, objects, run,
                  delTodo, watches, events, nchanges, lastEvent, entry >>

\* the first range is over: the second begins if the delete flag is given,
\* oneTimeSync returns if not
SyncPutsDone ==
  /\ pc = "putLoop"
  /\ putTodo = {}
  /\ IF CBool("delete")
     THEN /\ pc' = "delLoop"
          /\ delTodo' = DOMAIN destination.Manifest
          /\ UNCHANGED hist
     ELSE /\ pc' = "synced"
          /\ UNCHANGED delTodo
          /\ hist' = Append(hist, Hist("syncReturn", None, <<>>, 0))
  /\ UNCHANGED << flags, recurse, source, destination, disk, dirs, objects, run,
                  putTodo, io, watches, events, nchanges, lastEvent, entry >>

\* one iteration of the range over destination.Manifest
SyncDelStep ==
  /\ pc = "delLoop"
  /\ \E key \in delTodo :
       /\ delTodo' = delTodo \ {key}
       /\ IF key \notin DOMAIN source.Manifest
          THEN DeleteCall(hist, key, 0, "delLoop")
          ELSE UNCHANGED << pc, io, hist >>
  /\ UNCHANGED << flags, recurse, source, destination, disk, dirs, objects, run,
                  putTodo, watches, events, nchanges, lastEvent, entry >>

\* the second range is over: oneTimeSync returns
SyncDelsDone ==
  /\ pc = "delLoop"
  /\ delTodo = {}
  /\ pc' = "synced"
  /\ hist' = Append(hist, Hist("syncReturn", None, <<>>, 0))
  /\ UNCHANGED << flags, recurse, source, destination, disk, dirs, objects, run,
                  putTodo, delTodo, io, watches, events, nchanges, lastEvent, entry >>

\* oneTimeSync is called again on the same two Locations
SyncAgain ==
  /\ pc = "synced"
  /\ run < MaxRuns
  /\ run' = run + 1
  /\ entry' = [src |-> source.Manifest, dst |-> destination.Manifest]
  /\ putTodo' = DOMAIN source.Manifest
  /\ pc' = "putLoop"
  /\ hist' = Append(hist, [Hist("syncStart", None, <<>>, 0) EXCEPT !.run = run + 1])
  /\ UNCHANGED << flags, recurse, source, destination, disk, dirs, objects,
                  delTodo, io, watches, events, nchanges, lastEvent >>

(***************************************************************************)
(* The watch loop.                                                         *)
(***************************************************************************)
\* sync goes on after oneTimeSync has returned: it calls source.Watch(),
\* whatever the flags are; Watch registers the watches and enters the loop
StartWatch ==
  /\ pc = "synced"
  /\ IF recurse /\ ~IsDir(source.Path)
     THEN /\ pc' = "fatal"
          /\ UNCHANGED watches
     ELSE /\ pc' = "watch"
          /\ watches' =
               (IF IsDir(source.Path) THEN {Clean(source.Path)} ELSE {})
               \cup (IF recurse
                     THEN { Clean(source.Path \o <<SEP, n>>) :
                              n \in { m \in ReadDir(source.Path) :
                                        IsDir(source.Path \o <<SEP, m>>) } }
                     ELSE {})
  /\ UNCHANGED << flags, recurse, source, destination, disk, dirs, objects, run,
                  putTodo, delTodo, io, events, nchanges, lastEvent, entry, hist >>

\* a loop that takes the next event while a destination call is in progress
AtSelectOrBusy == pc \in {"watch", "io"}

\* the loop is at its select, ready to take an event from watcher.Events
AtSelect == pc = "watch"

\* the key the loop derives for an event
EventKey(e) == TrimPrefix(e.Name, source.Path)

\* a loop that registers every new directory
WatchesAfterDirAlways(e) == watches \cup {Clean(e.Name)}

\* the watches after an event on a directory
WatchesAfterDir(e) == IF recurse THEN watches \cup {Clean(e.Name)} ELSE watches

\* a handleEvent that takes every Location for a source
IsSourceAlways(l) == TRUE

\* the test handleEvent makes of the role of its Location
IsSource(l) == l.Type = Source

\* handleEvent(key, e) on the Location that watches, for a path that is no
\* directory
HandleEvent(key, e) ==
  IF ~IsSource(source)
  THEN /\ pc' = "fatal"
       /\ hist' = Append(hist, Hist("recv", e.Op, e.Name, e.id))
       /\ UNCHANGED << source, io >>
  ELSE CASE e.Op = "Create" ->
              /\ source' = [source EXCEPT
                   !.Manifest = MapPut(source.Manifest, key, ConstructFileEvent(e))]
              /\ PutCall(Append(hist, Hist("recv", e.Op, e.Name, e.id)),
                         key, ConstructFileEvent(e), e.id, "watch")
         [] e.Op = "Write" ->
              /\ UNCHANGED source
              /\ PutCall(Append(hist, Hist("recv", e.Op, e.Name, e.id)),
                         key, ConstructFileEvent(e), e.id, "watch")
         [] e.Op = "Remove" ->
              /\ UNCHANGED source
              /\ DeleteCall(Append(hist, Hist("recv", e.Op, e.Name, e.id)),
                            key, e.id, "watch")
         [] OTHER ->
              /\ pc' = "watch"
              /\ hist' = hist \o << Hist("recv", e.Op, e.Name, e.id),
                                    Hist("done", None, <<>>, e.id) >>
              /\ UNCHANGED << source, io >>

\* one event is taken from watcher.Events and handled, up to the call of the
\* destination
WatchRecv ==
  /\ AtSelect
  /\ events # <<>>
  /\ LET e == Head(events)
     IN  /\ events' = Tail(events)
         /\ IF ~IsDir(e.Name) /\ ~IsFile(e.Name)
            THEN \* os.Lstat fails, fi is nil: fi.IsDir() panics
                 /\ pc' = "panic"
                 /\ hist' = Append(hist, Hist("recv", e.Op, e.Name, e.id))
                 /\ UNCHANGED << source, io, watches >>
            ELSE IF IsDir(e.Name)
            THEN /\ watches' = WatchesAfterDir(e)
                 /\ pc' = "watch"
                 /\ hist' = hist \o << Hist("recv", e.Op, e.Name, e.id),
                                       Hist("done", None, <<>>, e.id) >>
                 /\ UNCHANGED << source, io >>
            ELSE /\ HandleEvent(EventKey(e), e)
                 /\ UNCHANGED watches
  /\ UNCHANGED << flags, recurse, destination, disk, dirs, objects, run, putTodo,
                  delTodo, nchanges, lastEvent, entry >>

(***************************************************************************)
(* The environment: changes of the files under the source root while the   *)
(* watch is registered; fsnotify delivers one event for each.              *)
(***************************************************************************)
\* the watch of the directory a path is in, if any
WatchOf(path) == { w \in watches : Resolve(w) = SubSeq(Resolve(path), 1, Len(Resolve(path)) - 1) }

\* the event fsnotify sends for an entry n of the watched directory w
Event(w, n, op) == [id |-> nchanges + 1, Name |-> w \o <<SEP, n>>, Op |-> op]

Deliver(path, n, op) ==
  events' = IF WatchOf(path) = {} THEN events
            ELSE Append(events, Event(CHOOSE w \in WatchOf(path) : TRUE, n, op))

SrcRoot == Resolve(source.Path)

CanChange ==
  /\ watches # {}
  /\ nchanges < MaxEvents
  /\ pc \in {"watch", "io"}

FsCreate ==
  /\ CanChange
  /\ \E n \in Names, c \in 1 .. MaxContent :
       /\ SrcRoot \o <<n>> \notin DOMAIN disk
       /\ disk' = MapPut(disk, SrcRoot \o <<n>>, [content |-> c, mtime |-> MaxTime])
       /\ Deliver(SrcRoot \o <<n>>, n, "Create")
       /\ lastEvent' = [lastEvent EXCEPT ![n] = [Op |-> "Create", content |-> c]]
  /\ nchanges' = nchanges + 1
  /\ UNCHANGED << entry, flags, recurse, source, destination, dirs, objects, pc, run,
                  putTodo, delTodo, io, watches, hist >>

FsWrite ==
  /\ CanChange
  /\ \E n \in Names, c \in 1 .. MaxContent :
       /\ SrcRoot \o <<n>> \in DOMAIN disk
       /\ disk' = MapPut(disk, SrcRoot \o <<n>>, [content |-> c, mtime |-> MaxTime])
       /\ Deliver(SrcRoot \o <<n>>, n, "Write")
       /\ lastEvent' = [lastEvent EXCEPT ![n] = [Op |-> "Write", content |-> c]]
  /\ nchanges' = nchanges + 1
  /\ UNCHANGED << entry, flags, recurse, source, destination, dirs, objects, pc, run,
                  putTodo, delTodo, io, watches, hist >>

FsRemove ==
  /\ CanChange
  /\ \E n \in Names :
       /\ SrcRoot \o <<n>> \in DOMAIN disk
       /\ disk' = MapDel(disk, SrcRoot \o <<n>>)
       /\ Deliver(SrcRoot \o <<n>>, n, "Remove")
       /\ lastEvent' = [lastEvent EXCEPT ![n] = [Op |-> "Remove", content |-> 0]]
  /\ nchanges' = nchanges + 1
  /\ UNCHANGED << entry, flags, recurse, source, destination, dirs, objects, pc, run,
                  putTodo, delTodo, io, watches, hist >>

FsMkdir ==
  /\ CanChange
  /\ SrcRoot \o <<SubDir>> \notin dirs
  /\ dirs' = dirs \cup {SrcRoot \o <<SubDir>>}
  /\ Deliver(SrcRoot \o <<SubDir>>, SubDir, "Create")
  /\ nchanges' = nchanges + 1
  /\ UNCHANGED << flags, recurse, source, destination, disk, objects, pc, run,
                  putTodo, delTodo, io, watches, lastEvent, entry, hist >>

\* the mode of a file is changed: the file stays as it is
FsChmod ==
  /\ CanChange
  /\ \E n \in Names :
       /\ SrcRoot \o <<n>> \in DOMAIN disk
       /\ Deliver(SrcRoot \o <<n>>, n, "Chmod")
  /\ nchanges' = nchanges + 1
  /\ UNCHANGED << flags, recurse, source, destination, disk, dirs, objects, pc, run,
                  putTodo, delTodo, io, watches, lastEvent, entry, hist >>

\* a file is moved out of the watched directory: the event names the old path
FsRename ==
  /\ CanChange
  /\ \E n \in Names :
       /\ SrcRoot \o <<n>> \in DOMAIN disk
       /\ disk' = MapDel(disk, SrcRoot \o <<n>>)
       /\ Deliver(SrcRoot \o <<n>>, n, "Rename")
       /\ lastEvent' = [lastEvent EXCEPT ![n] = [Op |-> "Rename", content |-> 0]]
  /\ nchanges' = nchanges + 1
  /\ UNCHANGED << entry, flags, recurse, source, destination, dirs, objects, pc, run,
                  putTodo, delTodo, io, watches, hist >>

(***************************************************************************)
(* The specifications.                                                     *)
(***************************************************************************)
AllFlags == [FlagNames -> BOOLEAN]

\* the program: few files at startup, the watch loop and the changes of the
\* source directory
Init ==
  InitWith(SrcParams, FileSets({"a"}, {1}, {1}), FileSets({"b"}, {1}, {1}),
           { f \in AllFlags : ~f["noop"] })

Next ==
  \/ Before
  \/ SyncBuild
  \/ SyncPutStep
  \/ SyncPutsDone
  \/ SyncDelStep
  \/ SyncDelsDone
  \/ IOReturn
  \/ IOFail
  \/ StartWatch
  \/ WatchRecv
  \/ FsCreate
  \/ FsWrite
  \/ FsRemove
  \/ FsMkdir
  \/ FsChmod
  \/ FsRename

Spec == Init /\ [][Next]_vars

\* oneTimeSync on every pair of Manifests over Names, run up to MaxRuns times
InitSync ==
  InitWith(SrcParams \ { <<SEP, "src", SEP>> }, FileSets(Names, 1 .. MaxContent, Times),
           FileSets(Names, 1 .. MaxContent, Times),
           { f \in AllFlags : ~f["noop"] /\ ~f["recursive"] /\ ~f["one-time"] })

NextSync ==
  \/ Before
  \/ SyncBuild
  \/ SyncPutStep
  \/ SyncPutsDone
  \/ SyncDelStep
  \/ SyncDelsDone
  \/ SyncAgain
  \/ IOReturn
  \/ IOFail

SpecSync == InitSync /\ [][NextSync]_vars

(***************************************************************************)
(* The round trip of a key: one Location stores a key with Put, then builds *)
(* its Manifest from what its backend holds.                               *)
(***************************************************************************)
\* the sequences over S of length 1 .. n
RECURSIVE SeqsUpTo(_, _)
SeqsUpTo(S, n) ==
  IF n = 0 THEN {}
  ELSE LET shorter == SeqsUpTo(S, n - 1)
       IN  { <<t>> : t \in S } \cup shorter \cup { Append(q, t) : q \in shorter, t \in S }

Keys == SeqsUpTo({SEP, "a", SubDir}, MaxKeyLen)
KeyParams == DstParams \cup { <<SEP, "dst", SEP>> }

InitKey ==
  \E dp \in KeyParams, k \in Keys :
    /\ flags = [n \in FlagNames |-> FALSE]
    /\ recurse = FALSE
    /\ source = GetLocation(<<SEP, "src">>, Source)
    /\ destination = GetLocation(dp, Destination)
    /\ disk = EmptyMap
    /\ dirs = IF Scheme(dp) = "" THEN { Resolve(dp), Resolve(dp) \o <<SubDir>> } ELSE {}
    /\ objects = EmptyMap
    /\ pc = "keyPut"
    /\ run = 0
    /\ putTodo = {}
    /\ delTodo = {}
    /\ io = [ op |-> "put", key |-> k, f |-> ZeroFile, ev |-> 0, ret |-> "keyStored",
              body |-> 1 ]
    /\ watches = {}
    /\ events = <<>>
    /\ nchanges = 0
    /\ lastEvent = [n \in Names |-> NoEvent]
    /\ entry = [src |-> EmptyMap, dst |-> EmptyMap]
    /\ hist = <<>>

\* Put(key, f) on the Location, with a body to copy
KeyPut ==
  /\ pc = "keyPut"
  /\ IF destination.Service = "S3"
     THEN /\ objects' = StoreObject(destination, io.key, io.body)
          /\ pc' = "keyStored"
          /\ UNCHANGED disk
     ELSE IF CanCreate(NativePath(destination, io.key))
     THEN /\ disk' = StoreFile(destination, io.key, io.body)
          /\ pc' = "keyStored"
          /\ UNCHANGED objects
     ELSE /\ pc' = "fatal"
          /\ UNCHANGED << disk, objects >>
  /\ UNCHANGED << flags, recurse, source, destination, dirs, run, putTodo, delTodo,
                  io, watches, events, nchanges, lastEvent, entry, hist >>

\* buildManifest on the Location
KeyBuild ==
  /\ pc = "keyStored"
  /\ destination' = [destination EXCEPT !.Manifest = BuildManifest(destination)]
  /\ pc' = "keyBuilt"
  /\ UNCHANGED << flags, recurse, source, disk, dirs, objects, run, putTodo, delTodo,
                  io, watches, events, nchanges, lastEvent, entry, hist >>

NextKey ==
  \/ KeyPut
  \/ KeyBuild

SpecKey == InitKey /\ [][NextKey]_vars

\* the form of the keys buildDirManifest and buildManifest store: rooted and clean
IsManifestKey(k) == Head(k) = SEP /\ Clean(k) = k /\ Len(k) > 1

\* C10: the identifier under which a Location stores a key, turned back into
\* a key by the Location's buildManifest, is the key: after Put(k) the Manifest
\* built from the backend has k and nothing else
C10_RoundTrip ==
  (pc = "keyBuilt" /\ IsManifestKey(io.key)) =>
     DOMAIN destination.Manifest = {io.key}

(***************************************************************************)
(* The reconcile pass (under SpecSync).                                    *)
(***************************************************************************)
\* the positions of hist holding a call of the destination made in run r
CallsOfRun(r) == { i \in 1 .. Len(hist) : hist[i].kind = "call" /\ hist[i].run = r }

\* the reference plan of a run, from the Manifests it was entered with
PlanPuts ==
  { k \in DOMAIN entry.src :
      \/ k \notin DOMAIN entry.dst
      \/ entry.src[k].Size # entry.dst[k].Size }
PlanDeletes ==
  IF flags["delete"] THEN DOMAIN entry.dst \ DOMAIN entry.src ELSE {}
Plan == { <<"put", k>> : k \in PlanPuts } \cup { <<"delete", k>> : k \in PlanDeletes }

\* C1: with the delete flag off, when oneTimeSync returns the destination
\* Manifest's keys are keys(A) \cup keys(B), and every key of the source has
\* the source's size in the destination Manifest
C1_UnionAfterSync ==
  (pc = "synced" /\ run = 1 /\ ~flags["delete"]) =>
     /\ DOMAIN destination.Manifest = DOMAIN entry.src \cup DOMAIN entry.dst
     /\ \A k \in DOMAIN entry.src :
          /\ k \in DOMAIN destination.Manifest
          /\ destination.Manifest[k].Size = entry.src[k].Size

\* C2: with the delete flag on, when oneTimeSync returns the destination
\* Manifest's keys are exactly keys(A)
C2_MirrorAfterSync ==
  (pc = "synced" /\ run = 1 /\ flags["delete"]) =>
     DOMAIN destination.Manifest = DOMAIN entry.src

\* C3: when a run of oneTimeSync returns, the calls it has made on the
\* destination are the reference plan, each made once: a put for every source
\* key absent from the destination Manifest or of another size, none for a key
\* of the same size whatever the modification times, a delete for every
\* destination key absent from the source when the delete flag is on, no
\* delete when it is off
C3_CallsArePlan ==
  pc = "synced" =>
     /\ { <<hist[i].op, hist[i].key>> : i \in CallsOfRun(run) } = Plan
     /\ Cardinality(CallsOfRun(run)) = Cardinality(Plan)

\* C3 witness: a run has returned after pushing a key and leaving alone a key
\* of equal size whose modification times differ
C3_Witness ==
  /\ pc = "synced"
  /\ PlanPuts # {}
  /\ \E k \in DOMAIN entry.src \cap DOMAIN entry.dst :
       /\ k \notin PlanPuts
       /\ entry.src[k].LastModified # entry.dst[k].LastModified

\* C4: a second run of oneTimeSync, nothing having changed since the first
\* returned, makes no Put and no Delete call
C4_SecondRunSilent == CallsOfRun(2) = {}

(***************************************************************************)
(* The watch loop (under Spec).                                            *)
(***************************************************************************)
\* this step takes an event from watcher.Events
Recv == Len(hist') > Len(hist) /\ hist'[Len(hist) + 1].kind = "recv"

\* the positions of hist holding a call of the destination made for event id
CallsOfEvent(h, id) == { i \in 1 .. Len(h) : h[i].kind = "call" /\ h[i].ev = id }

\* C5: a removed event for a file whose key is in the source Manifest reaches
\* handleEvent, which calls Delete for that key, once; when the Delete has
\* returned the key is no longer in the source Manifest
C5_RemovedIsDeleted ==
  [][ /\ ( /\ Recv
           /\ Head(events).Op = "Remove"
           /\ EventKey(Head(events)) \in DOMAIN source.Manifest )
         => /\ pc' = "io"
            /\ io'.op = "delete"
            /\ io'.key = EventKey(Head(events))
            /\ Cardinality(CallsOfEvent(hist', Head(events).id)) = 1
      /\ ( /\ pc = "io"
           /\ io.op = "delete"
           /\ io.ev # 0
           /\ pc' = "watch" )
         => io.key \notin DOMAIN source'.Manifest
    ]_vars

\* C6: without recursion, a created event for a file is answered by one Put
\* for its key and an entry for the key in the source Manifest; a created
\* event for a directory by no Put, no change of a Manifest and no new watch.
\* No event ever has more than one call of the destination.
C6_CreatedHandled ==
  [][ /\ ( /\ Recv
           /\ ~recurse
           /\ Head(events).Op = "Create" )
         => LET e == Head(events)
            IN  IF IsFile(e.Name)
                THEN /\ pc' = "io"
                     /\ io'.op = "put"
                     /\ io'.key = EventKey(e)
                     /\ EventKey(e) \in DOMAIN source'.Manifest
                     /\ Cardinality(CallsOfEvent(hist', e.id)) = 1
                ELSE IF IsDir(e.Name)
                THEN /\ pc' = "watch"
                     /\ source' = source
                     /\ destination' = destination
                     /\ watches' = watches
                     /\ CallsOfEvent(hist', e.id) = {}
                ELSE pc' = "panic"
      /\ \A id \in 1 .. MaxEvents : Cardinality(CallsOfEvent(hist', id)) <= 1
    ]_vars

\* the last token of a path
LastOf(path) == path[Len(path)]

\* C6 witness: a created event for a file and one for a directory have both
\* been handled, without recursion, and the Put of the first has returned
C6_Witness ==
  /\ ~recurse
  /\ pc = "watch"
  /\ \E i, j, k \in 1 .. Len(hist) :
       /\ hist[i].kind = "recv" /\ hist[i].op = "Create" /\ LastOf(hist[i].key) \in Names
       /\ hist[j].kind = "ret" /\ hist[j].op = "put" /\ hist[j].ev = hist[i].ev
       /\ hist[k].kind = "recv" /\ hist[k].op = "Create" /\ LastOf(hist[k].key) = SubDir

\* every event delivered has been taken from the channel and its handling is
\* over, by the return to the select or by the panic of the loop
AllHandled ==
  /\ nchanges > 0
  /\ events = <<>>
  /\ Cardinality({ i \in 1 .. Len(hist) : hist[i].kind = "recv" }) = nchanges
  /\ pc \in {"watch", "panic"}

\* the key of the file named n under the source root, as the loop derives it
KeyOfName(n) == TrimPrefix(Clean(source.Path) \o <<SEP, n>>, source.Path)

\* what the destination holds under a key: its content, or -1
DestContent(key) ==
  IF destination.Service = "S3"
  THEN IF <<destination.Bucket, ObjectName(destination, key)>> \in DOMAIN objects
       THEN objects[<<destination.Bucket, ObjectName(destination, key)>>].content
       ELSE -1
  ELSE IF IsFile(NativePath(destination, key))
       THEN disk[Resolve(NativePath(destination, key))].content ELSE -1

\* C7: once every event has been handled, the destination holds, for each
\* file an event was about, the content of its last create or write, or
\* nothing if its last event was removed
C7_LastEventWins ==
  AllHandled =>
    \A n \in Names :
      /\ lastEvent[n].Op \in {"Create", "Write"}
           => DestContent(KeyOfName(n)) = lastEvent[n].content
      /\ lastEvent[n].Op = "Remove" => DestContent(KeyOfName(n)) = -1

\* C8: no event is taken before oneTimeSync has returned; a call of the
\* destination is made for the event taken last; and the call made for an
\* event has returned before the next event is taken
C8_Serialized ==
  \A j \in 1 .. Len(hist) :
    /\ hist[j].kind = "recv" =>
         /\ \E i \in 1 .. j - 1 : hist[i].kind = "syncReturn"
         /\ \A i \in 1 .. j - 1 :
              (hist[i].kind = "call" /\ hist[i].ev # 0) =>
                 \E k \in i + 1 .. j - 1 : hist[k].kind = "ret" /\ hist[k].ev = hist[i].ev
         /\ \A i \in 1 .. j - 1 : hist[i].kind = "recv" => hist[i].ev < hist[j].ev
    /\ (hist[j].kind = "call" /\ hist[j].ev # 0) =>
         /\ j > 1
         /\ hist[j - 1].kind = "recv"
         /\ hist[j - 1].ev = hist[j].ev
    /\ (hist[j].kind = "call" /\ hist[j].ev = 0) =>
         \A i \in 1 .. j - 1 : hist[i].kind # "recv"

\* C8 witness: two events have each had their call of the destination, and
\* both calls have returned
C8_Witness ==
  \E i, j \in 1 .. Len(hist) :
    /\ i < j
    /\ hist[i].kind = "ret" /\ hist[i].ev # 0
    /\ hist[j].kind = "ret" /\ hist[j].ev # 0

\* C9: with the one-time flag, no watch is registered, the loop is not
\* entered and no event is handled
C9_OneTimeSkipsWatch ==
  flags["one-time"] =>
    /\ watches = {}
    /\ pc # "watch"
    /\ \A i \in 1 .. Len(hist) : hist[i].kind # "recv"

\* the operations handleEvent has a case for
HandledOps == {"Create", "Write", "Remove"}

\* C11: an event of another operation than created, written or removed that
\* reaches handleEvent on the source ends the process as fatal: it is not
\* passed over, and no Put, no Delete and no change of a Manifest comes of it
C11_OtherOpIsFatal ==
  [][ ( /\ Recv
        /\ Head(events).Op \notin HandledOps
        /\ IsFile(Head(events).Name) )
      => /\ pc' = "fatal"
         /\ CallsOfEvent(hist', Head(events).id) = {}
         /\ source' = source
         /\ destination' = destination
    ]_vars

(***************************************************************************)
(* Failures of the destination during oneTimeSync (under SpecSync).        *)
(***************************************************************************)
\* what a Put of the source file under key copies to the destination
SourceContent(key) ==
  LET f == source.Manifest[key]
  IN  IF f.Object = "FileInfo" THEN disk[Resolve(OpenPath(f))].content ELSE 0

\* the process has ended on an error
Ended == pc \in {"fatal", "panic"}

\* C12: a Put or Delete of oneTimeSync that fails ends the process: the call
\* that failed is the last thing done, no call follows it and it is not made
\* again; what the Puts of the run that returned before it have stored is
\* still at the destination
C12_FailFast ==
  /\ \A i \in 1 .. Len(hist) - 1 :
       hist[i].kind = "call" =>
          /\ hist[i + 1].kind = "ret"
          /\ hist[i + 1].op = hist[i].op
          /\ hist[i + 1].key = hist[i].key
  /\ Ended =>
       \A i \in 1 .. Len(hist) :
         (hist[i].kind = "ret" /\ hist[i].op = "put" /\ hist[i].run = run) =>
            DestContent(hist[i].key) = SourceContent(hist[i].key)

\* C12 witness: a call of the first run has failed after a Put of that run
\* had returned
C12_Witness ==
  /\ Ended
  /\ run = 1
  /\ hist[Len(hist)].kind = "call"
  /\ \E i \in 1 .. Len(hist) : hist[i].kind = "ret" /\ hist[i].op = "put"

(***************************************************************************)
(* Put and Delete called on a Location, in any order (SpecLoc).            *)
(***************************************************************************)
\* the number of calls made on the Location
MaxCalls == 3

LocKeys == { <<SEP, n>> : n \in Names }

\* the descriptors of the local files, as buildDirManifest makes them
LocFiles == { p[2] : p \in BuildDirManifest(source, source.Path) }

NCalls == Cardinality({ i \in 1 .. Len(hist) : hist[i].kind = "call" })

\* a Location of either kind as getLocations makes it, its backend empty, and
\* two local files to put
InitLoc ==
  \E dp \in DstParams :
    /\ flags = [n \in FlagNames |-> FALSE]
    /\ recurse = FALSE
    /\ source = GetLocation(<<SEP, "src">>, Source)
    /\ destination = GetLocation(dp, Destination)
    /\ disk = MapOf({ << <<"src", "a">>, [content |-> 1, mtime |-> 1] >>,
                      << <<"src", "b">>, [content |-> MaxContent, mtime |-> 1] >> })
    /\ dirs = {<<"src">>} \cup (IF Scheme(dp) = "" THEN {Resolve(dp)} ELSE {})
    /\ objects = EmptyMap
    /\ pc = "loc"
    /\ run = 0
    /\ putTodo = {}
    /\ delTodo = {}
    /\ io = None
    /\ watches = {}
    /\ events = <<>>
    /\ nchanges = 0
    /\ lastEvent = [n \in Names |-> NoEvent]
    /\ entry = [src |-> EmptyMap, dst |-> EmptyMap]
    /\ hist = <<>>

\* Put(key, f) is called on the Location
LocPut ==
  /\ pc = "loc"
  /\ NCalls < MaxCalls
  /\ \E key \in LocKeys, f \in LocFiles : PutCall(hist, key, f, 0, "loc")
  /\ UNCHANGED << flags, recurse, source, destination, disk, dirs, objects, run,
                  putTodo, delTodo, watches, events, nchanges, lastEvent, entry >>

\* Delete(key) is called on the Location
LocDelete ==
  /\ pc = "loc"
  /\ NCalls < MaxCalls
  /\ \E key \in LocKeys : DeleteCall(hist, key, 0, "loc")
  /\ UNCHANGED << flags, recurse, source, destination, disk, dirs, objects, run,
                  putTodo, delTodo, watches, events, nchanges, lastEvent, entry >>

NextLoc ==
  \/ LocPut
  \/ LocDelete
  \/ IOReturn
  \/ IOFail

SpecLoc == InitLoc /\ [][NextLoc]_vars

\* the keys whose last call that returned was a Put
PutNotDeleted ==
  { k \in LocKeys :
      \E i \in 1 .. Len(hist) :
        /\ hist[i].kind = "ret" /\ hist[i].op = "put" /\ hist[i].key = k
        /\ \A j \in i + 1 .. Len(hist) :
             ~(hist[j].kind = "ret" /\ hist[j].op = "delete" /\ hist[j].key = k) }

\* C13: whatever the kind of the Location, once its Put and Delete calls have
\* all returned without error its Manifest holds exactly the keys put and not
\* deleted since: in particular a key whose Put has just returned
C13_ManifestTracksCalls ==
  pc = "loc" => DOMAIN destination.Manifest = PutNotDeleted

\* C17: Delete of a key the backend does not hold can return without error,
\* whatever the kind of the Location, and when it has returned the Manifest
\* has no entry for the key
C17_DeleteMissingOk ==
  /\ (pc = "io" /\ io.op = "delete" /\ DestContent(io.key) = -1) => ENABLED IOReturn
  /\ (pc = "loc" /\ hist # <<>>) =>
       LET last == hist[Len(hist)]
       IN  (last.kind = "ret" /\ last.op = "delete")
              => last.key \notin DOMAIN destination.Manifest

(***************************************************************************)
(* Created and written events (under Spec).                                *)
(***************************************************************************)
\* C14: a written event for a file is answered as a created one is: one Put
\* for its key, and the source Manifest holding under the key the descriptor
\* built for this event; so the key is in the source Manifest afterwards even
\* if it was not before
C14_WrittenAsCreated ==
  [][ ( /\ Recv
        /\ Head(events).Op = "Write"
        /\ IsFile(Head(events).Name) )
      => LET e == Head(events)
         IN  /\ pc' = "io"
             /\ io'.op = "put"
             /\ io'.key = EventKey(e)
             /\ Cardinality(CallsOfEvent(hist', e.id)) = 1
             /\ EventKey(e) \in DOMAIN source'.Manifest
             /\ source'.Manifest[EventKey(e)] = ConstructFileEvent(e)
    ]_vars

\* C15: the descriptor built for a created or written event of a file has the
\* size of the file on disk
C15_DescriptorHasSize ==
  [][ ( /\ Recv
        /\ Head(events).Op \in {"Create", "Write"}
        /\ IsFile(Head(events).Name) )
      => /\ pc' = "io"
         /\ io'.f.Size = SizeOf(disk[Resolve(Head(events).Name)].content)
    ]_vars

\* the directories at or under the source root whose appearance the loop has
\* nothing left to learn of: no event naming them waits in the channel
SettledDirs ==
  { d \in dirs :
      /\ HasPrefix(d, SrcRoot)
      /\ \A i \in 1 .. Len(events) : Resolve(events[i].Name) # d }

\* C16: with the recursive flag given, once the loop is back at its select the
\* watcher has a watch for the source root, for every directory under it
\* that was there at startup, and for every directory whose created event
\* has been handled
C16_RecursiveWatchesAll ==
  (flags["recursive"] /\ pc = "watch") =>
     \A d \in SettledDirs : \E w \in watches : Resolve(w) = d

(***************************************************************************)
(* buildManifest on an object-store Location whose Manifest already holds  *)
(* entries (SpecList).                                                     *)
(***************************************************************************)
ListParam == <<"s3:", SEP, SEP, "db", SEP>>

\* the objects outside the listing: under no prefix, and of another bucket
OtherObjects ==
  { << <<"db", <<"z">> >>, [content |-> 1, mtime |-> 1] >>,
    << <<"sb", ListParam \o <<"a">> >>, [content |-> 1, mtime |-> 1] >> }

\* the Manifests an earlier buildManifest may have left
StaleManifests ==
  { EmptyMap,
    MapOf({ << <<SEP, "a">>, ZeroFile >>, << <<SEP, "z">>, ZeroFile >> }) }

InitList ==
  \E fs \in FileSets(Names \cup {SubDir}, 1 .. MaxContent, {1}),
     others \in SUBSET OtherObjects, stale \in StaleManifests :
    LET d == GetLocation(ListParam, Destination)
    IN  /\ flags = [n \in FlagNames |-> FALSE]
        /\ recurse = FALSE
        /\ source = GetLocation(<<SEP, "src">>, Source)
        /\ destination = [d EXCEPT !.Manifest = stale]
        /\ disk = EmptyMap
        /\ dirs = {}
        /\ objects = MapOf(ObjectsOf(d, fs) \cup others)
        /\ pc = "list"
        /\ run = 0
        /\ putTodo = {}
        /\ delTodo = {}
        /\ io = None
        /\ watches = {}
        /\ events = <<>>
        /\ nchanges = 0
        /\ lastEvent = [n \in Names |-> NoEvent]
        /\ entry = [src |-> EmptyMap, dst |-> stale]
        /\ hist = <<>>

\* buildManifest returns: every page has been handed to the callback
ListBuild ==
  /\ pc = "list"
  /\ destination' = [destination EXCEPT !.Manifest = BuildManifest(destination)]
  /\ pc' = "listed"
  /\ UNCHANGED << flags, recurse, source, disk, dirs, objects, run, putTodo, delTodo,
                  io, watches, events, nchanges, lastEvent, entry, hist >>

\* ListObjectsV2Pages returns an error after some of the pages: log.Fatal
ListFail ==
  /\ pc = "list"
  /\ LET pages == Pages(Listing(destination.Bucket, destination.Path))
     IN  \E j \in 0 .. Len(pages) - 1 :
           destination' = [destination EXCEPT !.Manifest =
              MapOf(UNION { PageEntries(destination, pages[i]) : i \in 1 .. j })]
  /\ pc' = "fatal"
  /\ UNCHANGED << flags, recurse, source, disk, dirs, objects, run, putTodo, delTodo,
                  io, watches, events, nchanges, lastEvent, entry, hist >>

NextList ==
  \/ ListBuild
  \/ ListFail

SpecList == InitList /\ [][NextList]_vars

\* the objects of the Location's bucket whose name begins with its prefix
Listed ==
  { x \in DOMAIN objects :
      x[1] = destination.Bucket /\ HasPrefix(x[2], destination.Path) }

\* C18: when buildManifest returns on an object-store Location, its Manifest
\* has one entry for each object under the prefix, whatever page it came in,
\* made from that object, and no other entry: what the Manifest held before
\* and is not in the listing is gone
C18_AllPagesListed ==
  pc = "listed" =>
    /\ DOMAIN destination.Manifest = { ObjectKey(destination, x[2]) : x \in Listed }
    /\ Cardinality(DOMAIN destination.Manifest) = Cardinality(Listed)
    /\ \A x \in Listed :
         destination.Manifest[ObjectKey(destination, x[2])]
           = ConstructFileObject(x[2], objects[x])

\* C18 witness: buildManifest has returned on a listing of several pages,
\* with objects outside the listing, on a Manifest that held a key the
\* listing has not
C18_Witness ==
  /\ pc = "listed"
  /\ Cardinality(Listed) > MaxPage
  /\ Listed # DOMAIN objects
  /\ DOMAIN entry.dst \ DOMAIN destination.Manifest # {}

(***************************************************************************)
(* handleEvent on a Location of either role (SpecHandle): the Location     *)
(* that receives the event is the one the variable source holds.           *)
(***************************************************************************)
EventOps == HandledOps \cup {"Chmod", "Rename"}

InitHandle ==
  \E type \in {Source, Destination}, dp \in DstParams, op \in EventOps, n \in Names,
     sf \in FileSets(Names, {1}, {1}), df \in FileSets(Names, {1}, {1}) :
    LET r == GetLocation(<<SEP, "src">>, type)
        d == GetLocation(dp, Destination)
    IN  /\ flags = [x \in FlagNames |-> FALSE]
        /\ recurse = FALSE
        /\ disk = MapOf(DiskOf(r, sf) \cup DiskOf(d, df))
        /\ dirs = {<<"src">>} \cup (IF Scheme(dp) = "" THEN {Resolve(dp)} ELSE {})
        /\ source = [r EXCEPT !.Manifest = MapOf(BuildDirManifest(r, r.Path))]
        /\ destination = d
        /\ objects = MapOf(ObjectsOf(d, df))
        /\ pc = "watch"
        /\ run = 0
        /\ putTodo = {}
        /\ delTodo = {}
        /\ io = None
        /\ watches = {<<SEP, "src">>}
        /\ events = << [id |-> 1, Name |-> <<SEP, "src", SEP, n>>, Op |-> op] >>
        /\ nchanges = 1
        /\ lastEvent = [x \in Names |-> NoEvent]
        /\ entry = [src |-> EmptyMap, dst |-> EmptyMap]
        /\ hist = <<>>

NextHandle ==
  \/ WatchRecv
  \/ IOReturn
  \/ IOFail

SpecHandle == InitHandle /\ [][NextHandle]_vars

\* C19: handleEvent on a Location whose role is Destination ends the process
\* as fatal whatever the operation of the event: no Put, no Delete, and no
\* Manifest or backend is changed
C19_DestinationIsFatal ==
  [][ ( /\ Recv
        /\ ~(source.Type = Source)
        /\ IsFile(Head(events).Name) )
      => /\ pc' = "fatal"
         /\ CallsOfEvent(hist', Head(events).id) = {}
         /\ source' = source
         /\ destination' = destination
         /\ disk' = disk
         /\ objects' = objects
    ]_vars

\* C19 witness: the process has ended on an event taken by a Location whose
\* role is Destination, for a file that exists
C19_Witness ==
  /\ source.Type = Destination
  /\ pc = "fatal"
  /\ hist # <<>>
  /\ hist[Len(hist)].kind = "recv"
  /\ IsFile(hist[Len(hist)].key)

(***************************************************************************)
(* The keys of the watch loop and of buildDirManifest (under Spec).        *)
(***************************************************************************)
\* C20: whatever way the source root is written, the key the watch loop
\* derives for an event on a file is the key buildDirManifest stores for
\* that file
C20_WatchKeyIsManifestKey ==
  \A i \in 1 .. Len(events) :
    IsFile(events[i].Name) =>
      \A p \in BuildDirManifest(source, source.Path) :
        Resolve(OpenPath(p[2])) = Resolve(events[i].Name)
          => EventKey(events[i]) = p[1]

====
